---- MODULE Spec2Model ----
(***************************************************************************)
(* The scheduling engine of cland (src/lib/scheduler.ts, src/lib/time.ts): *)
(* generatePlan turns tasks into calendar blocks inside working hours.     *)
(*                                                                         *)
(* Time is the JavaScript time value: an integer number of milliseconds.   *)
(* The local midnight of the day "now" falls on is 0 or a multiple of      *)
(* DayMs; the model has no daylight-saving shifts, so local days are       *)
(* DayMs long.  ISO strings (Date.toISOString / new Date(iso)) round-trip  *)
(* a time value exactly, so a timestamp field holds the time value.        *)
(* An optional field (deadline?, maxBlockMinutes?, ...) is a set with at   *)
(* most one element.  An "HH:MM" string is the pair <<HH, MM>>.            *)
(***************************************************************************)
EXTENDS Integers, Sequences, FiniteSets, TLC

VARIABLES
    tasks,          \* generatePlan argument: Task[]
    events,         \* generatePlan argument: CalendarEvent[]
    settings,       \* generatePlan argument: Settings
    lockedBlocks,   \* generatePlan argument: PlannedBlock[]
    now,            \* const now = new Date()
    sortedTasks,    \* [...tasks].sort(taskSort)
    slotsByDay,     \* Map dayKey -> Interval[], keyed here by the day's dayKey
    planBlocks,     \* PlannedBlock[]
    dailyTotals,    \* Record<dayKey, minutes>
    warnings,       \* PlanWarning[]
    pc,             \* position in generatePlan
    taskIdx,        \* position of sortedTasks.forEach (1-based)
    remaining,      \* let remaining
    earliest,       \* const earliest
    firstBlock,     \* let firstBlock
    offset,         \* day loop counter
    index,          \* slot loop counter (1-based)
    slotStart,      \* let slotStart
    slotEnd         \* let slotEnd

inputs == <<tasks, events, settings, lockedBlocks, now, sortedTasks>>
locals == <<remaining, earliest, firstBlock, offset, index, slotStart, slotEnd>>
vars == <<tasks, events, settings, lockedBlocks, now, sortedTasks, slotsByDay,
          planBlocks, dailyTotals, warnings, pc, taskIdx, remaining, earliest,
          firstBlock, offset, index, slotStart, slotEnd>>

----------------------------------------------------------------------------
(* Time helpers (src/lib/time.ts)                                          *)

MsPerMinute == 60000

DayMs == 24 * 60 * 60 * 1000

Min(a, b) == IF a <= b THEN a ELSE b

Max(a, b) == IF a >= b THEN a ELSE b

Has(opt) == opt # {}

Val(opt) == CHOOSE v \in opt : TRUE

\* new Date(y, m, d): the local midnight of the date's day
startOfDay(date) == (date \div DayMs) * DayMs

\* setDate(getDate() + days)
addDays(date, days) == date + days * DayMs

\* Math.max(0, Math.round(ms / 60000)); Math.round rounds a half upwards
minutesBetween(start, end) == Max(0, ((end - start) + (MsPerMinute \div 2)) \div MsPerMinute)

\* "HH:MM" split at ":" and placed on the day of date, seconds and ms zero
combineDateAndTime(date, time) == startOfDay(date) + (time[1] * 60 + time[2]) * MsPerMinute

\* yyyy-mm-dd of the local day, here the number of the day
dayKey(date) == date \div DayMs

WeekDayNames == <<"Mon", "Tue", "Wed", "Thu", "Fri", "Sat", "Sun">>

\* Intl weekday: "short"; time value 0 is taken to be a Monday 00:00 local
weekDayShort(date) == WeekDayNames[(dayKey(date) % 7) + 1]

----------------------------------------------------------------------------
(* Interval arithmetic (scheduler.ts 11-47)                                *)

Interval(s, e) == [start |-> s, end |-> e]

\* null is the empty sequence, an interval the one-element sequence
createInterval(start, end) == IF end <= start THEN <<>> ELSE <<Interval(start, end)>>

overlaps(a, b) == a.start < b.end /\ b.start < a.end

\* only the part of base before the cut is kept
subtractKeepLeft(base, cut) ==
    IF ~overlaps(base, cut) THEN <<base>>
    ELSE IF cut.start > base.start THEN <<Interval(base.start, cut.start)>> ELSE <<>>

subtractInterval(base, cut) ==
    IF ~overlaps(base, cut) THEN <<base>>
    ELSE (IF cut.start > base.start THEN <<Interval(base.start, cut.start)>> ELSE <<>>)
         \o (IF cut.end < base.end THEN <<Interval(cut.end, base.end)>> ELSE <<>>)

RECURSIVE flatSubtract(_, _)
\* current.flatMap((base) => subtractInterval(base, cut))
flatSubtract(bases, cut) ==
    IF bases = <<>> THEN <<>>
    ELSE subtractInterval(Head(bases), cut) \o flatSubtract(Tail(bases), cut)

RECURSIVE subtractIntervals(_, _)
\* cuts.reduce(..., bases)
subtractIntervals(bases, cuts) ==
    IF cuts = <<>> THEN bases
    ELSE subtractIntervals(flatSubtract(bases, Head(cuts)), Tail(cuts))

RECURSIVE insertByStart(_, _)
insertByStart(sorted, x) ==
    IF sorted = <<>> THEN <<x>>
    ELSE IF x.start < Head(sorted).start THEN <<x>> \o sorted
    ELSE <<Head(sorted)>> \o insertByStart(Tail(sorted), x)

RECURSIVE sortByStart(_)
\* Array.prototype.sort with (a, b) => a.start - b.start; the sort is stable
sortByStart(s) ==
    IF s = <<>> THEN <<>>
    ELSE insertByStart(sortByStart(SubSeq(s, 1, Len(s) - 1)), s[Len(s)])

----------------------------------------------------------------------------
(* Free-slot builder (scheduler.ts 49-100)                                 *)

\* every event mapped to its interval, busy or not
SelectAllEvents(evs) == [i \in 1..Len(evs) |-> Interval(evs[i].start, evs[i].end)]

RECURSIVE SelectBusy(_)
\* events.filter((event) => event.busy) mapped to intervals
SelectBusy(evs) ==
    IF evs = <<>> THEN <<>>
    ELSE (IF Head(evs).busy THEN <<Interval(Head(evs).start, Head(evs).end)>> ELSE <<>>)
         \o SelectBusy(Tail(evs))

BlockIntervals(blocks) == [i \in 1..Len(blocks) |-> Interval(blocks[i].start, blocks[i].end)]

\* busy events first, then the locked blocks, each in input order
busyIntervalsOf(evs, locked) == SelectBusy(evs) \o BlockIntervals(locked)

RECURSIVE clippedCuts(_, _, _)
\* busyIntervals.forEach: clip to [dayStart, dayEnd], keep the non-degenerate
clippedCuts(busy, dayStart, dayEnd) ==
    IF busy = <<>> THEN <<>>
    ELSE LET b == Head(busy)
             cutStart == IF b.start < dayStart THEN dayStart ELSE b.start
             cutEnd == IF b.end > dayEnd THEN dayEnd ELSE b.end
         IN  createInterval(cutStart, cutEnd) \o clippedCuts(Tail(busy), dayStart, dayEnd)

\* the body of the day loop of buildFreeSlots for one day
freeSlotsOfDay(day, stg, evs, locked) ==
    LET dayStart == combineDateAndTime(day, stg.workDayStart)
        dayEnd == combineDateAndTime(day, stg.workDayEnd)
        workingInterval == createInterval(dayStart, dayEnd)
        lunchInterval == createInterval(combineDateAndTime(day, stg.lunchStart),
                                        combineDateAndTime(day, stg.lunchEnd))
        cuts == lunchInterval \o clippedCuts(busyIntervalsOf(evs, locked), dayStart, dayEnd)
    IN  IF workingInterval = <<>> THEN <<>>
        ELSE sortByStart(subtractIntervals(workingInterval, cuts))

\* the Map is keyed by dayKey(addDays(startDay, offset))
buildFreeSlots(startDay, stg, evs, locked) ==
    [k \in { dayKey(addDays(startDay, o)) : o \in 0..(stg.planningHorizonDays - 1) } |->
        freeSlotsOfDay(k * DayMs, stg, evs, locked)]

----------------------------------------------------------------------------
(* Scoring (scheduler.ts 102-141)                                          *)

RECURSIVE someWindow(_, _, _)
someWindow(windows, day, minutes) ==
    IF windows = <<>> THEN FALSE
    ELSE LET w == Head(windows)
             startMinutes == w.start[1] * 60 + w.start[2]
             endMinutes == w.end[1] * 60 + w.end[2]
         IN  \/ (day \in w.days /\ minutes >= startMinutes /\ minutes < endMinutes)
             \/ someWindow(Tail(windows), day, minutes)

isPreferredWindow(task, date) ==
    IF task.preferredTimeWindows = <<>> THEN FALSE
    ELSE someWindow(task.preferredTimeWindows, weekDayShort(date),
                    (date % DayMs) \div MsPerMinute)

\* the score without the 0.05 of a first block
confidenceWithoutFirst(preferred, nearDeadline, isFirst) ==
    Min(95, Max(20, 60 + (IF preferred THEN 20 ELSE 0) + (IF nearDeadline THEN 10 ELSE 0)))

\* the score in hundredths: 0.6, +0.2, +0.1, +0.05, clamped to [0.2, 0.95]
confidenceForBlock(preferred, nearDeadline, isFirst) ==
    LET score == 60 + (IF preferred THEN 20 ELSE 0) + (IF nearDeadline THEN 10 ELSE 0)
                    + (IF isFirst THEN 5 ELSE 0)
    IN  Min(95, Max(20, score))

\* near only when less than 48 hours are left
deadlineIsNearStrict(deadline, date) ==
    Has(deadline) /\ Val(deadline) - date < 48 * 60 * 60 * 1000 /\ Val(deadline) - date >= 0

deadlineIsNear(deadline, date) ==
    IF ~Has(deadline) THEN FALSE
    ELSE LET diff == Val(deadline) - date
         IN  diff <= 48 * 60 * 60 * 1000 /\ diff >= 0

----------------------------------------------------------------------------
(* Task ordering (scheduler.ts 143-153)                                    *)

\* String.prototype.localeCompare on titles of basic Latin letters: the
\* collation compares the letters first, ignoring case, and only when all
\* letters agree the case, a lower-case letter before its upper-case one.
\* A title is a sequence of [letter, upper] records.
RECURSIVE compareKeys(_, _)
compareKeys(a, b) ==
    IF a = <<>> /\ b = <<>> THEN 0
    ELSE IF a = <<>> THEN -1
    ELSE IF b = <<>> THEN 1
    ELSE IF Head(a) < Head(b) THEN -1
    ELSE IF Head(a) > Head(b) THEN 1
    ELSE compareKeys(Tail(a), Tail(b))

letterKeys(title) == [i \in 1..Len(title) |-> title[i].letter]

caseKeys(title) == [i \in 1..Len(title) |-> IF title[i].upper THEN 1 ELSE 0]

\* the code unit of a basic Latin letter: "A" is 65, "a" is 97
codeUnit(c) == IF c.upper THEN 64 + c.letter ELSE 96 + c.letter

\* a comparison of the UTF-16 code units, as the < operator on strings makes it
localeCompareByCodeUnit(a, b) ==
    compareKeys([i \in 1..Len(a) |-> codeUnit(a[i])], [i \in 1..Len(b) |-> codeUnit(b[i])])

localeCompare(a, b) ==
    IF compareKeys(letterKeys(a), letterKeys(b)) # 0
    THEN compareKeys(letterKeys(a), letterKeys(b))
    ELSE compareKeys(caseKeys(a), caseKeys(b))

\* the sign of taskSort(a, b); a missing deadline is Number.POSITIVE_INFINITY
taskSort(a, b) ==
    IF Has(a.deadline) # Has(b.deadline) THEN (IF Has(a.deadline) THEN -1 ELSE 1)
    ELSE IF Has(a.deadline) /\ Val(a.deadline) # Val(b.deadline)
         THEN (IF Val(a.deadline) < Val(b.deadline) THEN -1 ELSE 1)
    ELSE IF a.priority # b.priority THEN (IF b.priority < a.priority THEN -1 ELSE 1)
    ELSE localeCompare(a.title, b.title)

RECURSIVE insertTask(_, _)
insertTask(sorted, t) ==
    IF sorted = <<>> THEN <<t>>
    ELSE IF taskSort(t, Head(sorted)) < 0 THEN <<t>> \o sorted
    ELSE <<Head(sorted)>> \o insertTask(Tail(sorted), t)

RECURSIVE sortTasks(_)
\* [...tasks].sort(taskSort): Array.prototype.sort is stable
sortTasks(ts) ==
    IF ts = <<>> THEN <<>>
    ELSE insertTask(sortTasks(SubSeq(ts, 1, Len(ts) - 1)), ts[Len(ts)])

----------------------------------------------------------------------------
(* Totals and dependencies (scheduler.ts 155-187)                          *)

RECURSIVE sumMinutes(_)
sumMinutes(blocks) ==
    IF blocks = <<>> THEN 0
    ELSE minutesBetween(Head(blocks).start, Head(blocks).end) + sumMinutes(Tail(blocks))

minutesByDay(blocks) ==
    [k \in { dayKey(blocks[i].start) : i \in 1..Len(blocks) } |->
        LET onDay(b) == dayKey(b.start) = k IN sumMinutes(SelectSeq(blocks, onDay))]

minutesByTask(blocks) ==
    [id \in { blocks[i].taskId : i \in 1..Len(blocks) } |->
        LET ofTask(b) == b.taskId = id IN sumMinutes(SelectSeq(blocks, ofTask))]

\* record[key] ?? 0
Lookup(record, key) == IF key \in DOMAIN record THEN record[key] ELSE 0

RECURSIVE latestEnd(_, _)
latestEnd(blocks, latest) ==
    IF blocks = <<>> THEN latest
    ELSE latestEnd(Tail(blocks), IF Head(blocks).end > latest THEN Head(blocks).end ELSE latest)

\* the latest end of all the blocks, whatever their task
latestEndOfAnyBlock(task, blocks) ==
    IF blocks = <<>> THEN {} ELSE {latestEnd(blocks, blocks[1].end)}

\* null is the empty set
latestDependencyEnd(task, blocks) ==
    LET isDep(b) == b.taskId \in task.dependencies
        dependentBlocks == SelectSeq(blocks, isDep)
    IN  IF task.dependencies = {} \/ dependentBlocks = <<>> THEN {}
        ELSE {latestEnd(dependentBlocks, dependentBlocks[1].end)}

----------------------------------------------------------------------------
(* Plan validator (scheduler.ts 189-238)                                   *)

\* a PlanWarning that names no task
WarningWithoutTask(code, message, taskId) == [code |-> code, message |-> message, taskId |-> {}]

\* a PlanWarning; the message is kept as the values interpolated into it
Warning(code, message, taskId) == [code |-> code, message |-> message, taskId |-> taskId]

\* one OVERLAPS_BUSY for a block, however many busy events it overlaps
busyWarningOnce(block, busy) ==
    IF \E e \in 1..Len(busy) : overlaps(Interval(block.start, block.end), busy[e])
    THEN <<Warning("OVERLAPS_BUSY", <<block.id>>, {})>> ELSE <<>>

RECURSIVE busyWarnings(_, _)
busyWarnings(block, busy) ==
    IF busy = <<>> THEN <<>>
    ELSE (IF overlaps(Interval(block.start, block.end), Head(busy))
          THEN <<Warning("OVERLAPS_BUSY", <<block.id>>, {})>> ELSE <<>>)
         \o busyWarnings(block, Tail(busy))

\* the body of blocks.forEach in validateBlocks
blockWarnings(block, evs, stg) ==
    LET day == startOfDay(block.start)
        workStart == combineDateAndTime(day, stg.workDayStart)
        workEnd == combineDateAndTime(day, stg.workDayEnd)
    IN  (IF block.start < workStart \/ block.end > workEnd
         THEN <<Warning("OUTSIDE_WORK_HOURS", <<block.id>>, {})>> ELSE <<>>)
        \o busyWarnings(block, SelectBusy(evs))

RECURSIVE eachBlockWarnings(_, _, _)
eachBlockWarnings(blocks, evs, stg) ==
    IF blocks = <<>> THEN <<>>
    ELSE blockWarnings(Head(blocks), evs, stg) \o eachBlockWarnings(Tail(blocks), evs, stg)

RECURSIVE adjacentOverlaps(_)
\* for (i = 0; i < sorted.length - 1; i += 1): sorted[i] against sorted[i + 1]
adjacentOverlaps(sorted) ==
    IF Len(sorted) < 2 THEN <<>>
    ELSE (IF overlaps(Interval(sorted[1].start, sorted[1].end),
                      Interval(sorted[2].start, sorted[2].end))
          THEN <<Warning("BLOCK_OVERLAP", <<sorted[1].id, sorted[2].id>>, {})>> ELSE <<>>)
         \o adjacentOverlaps(Tail(sorted))

\* the warnings validateBlocks pushes, in order
validateBlocks(blocks, evs, stg) ==
    eachBlockWarnings(blocks, evs, stg) \o adjacentOverlaps(sortByStart(blocks))

----------------------------------------------------------------------------
(* generatePlan (scheduler.ts 240-390)                                     *)

startDay == startOfDay(now)

Task == sortedTasks[taskIdx]

\* the locked minutes of the task left out
remainingAtStartNoLocked(task) == Max(0, task.estimatedMinutes - task.completedMinutes)

\* Math.max(0, estimatedMinutes - completedMinutes - lockedMinutes)
remainingAtStart(task) ==
    Max(0, task.estimatedMinutes - task.completedMinutes
           - Lookup(minutesByTask(lockedBlocks), task.id))

\* task.earliestStart ? new Date(task.earliestStart) : now
earliestStartOf(task) == IF Has(task.earliestStart) THEN Val(task.earliestStart) ELSE now

\* earliest without the dependencies of the task
earliestWithoutDependencies(task, blocks) == earliestStartOf(task)

\* const earliest, given the blocks placed so far
earliestOf(task, blocks) ==
    LET dependencyEnd == latestDependencyEnd(task, blocks)
    IN  IF Has(dependencyEnd) /\ Val(dependencyEnd) > earliestStartOf(task)
        THEN Val(dependencyEnd) ELSE earliestStartOf(task)

\* deadline && earliest.getTime() > deadline.getTime()
deadlinePassed(task, earliestV) == Has(task.deadline) /\ earliestV > Val(task.deadline)

\* minBlockMinutes also for a task that is not interruptible
minBlockOfAlways(task) == task.minBlockMinutes

minBlockOf(task) == IF task.interruptible THEN task.minBlockMinutes ELSE remainingAtStart(task)

\* maxBlockMinutes left out
maxBlockIgnored(task) == remainingAtStart(task)

\* task.maxBlockMinutes ?? remaining
maxBlockOf(task) ==
    IF Has(task.maxBlockMinutes) THEN Val(task.maxBlockMinutes) ELSE remainingAtStart(task)

day == addDays(startDay, offset)

dayKeyValue == dayKey(day)

slots == IF dayKeyValue \in DOMAIN slotsByDay THEN slotsByDay[dayKeyValue] ELSE <<>>

\* slot.start < earliest ? earliest : slot.start
clipStart(slot, earliestV) == IF slot.start < earliestV THEN earliestV ELSE slot.start

\* deadline && slot.end > deadline ? deadline : slot.end
clipEnd(slot, deadline) ==
    IF Has(deadline) /\ slot.end > Val(deadline) THEN Val(deadline) ELSE slot.end

remainingDailyOf(totals, key) == settings.maxDailyMinutes - Lookup(totals, key)

\* the daily allowance left out of the minimum
canFitNoCap(availableMinutes, remainingDaily, maxBlock, rem) ==
    Min(availableMinutes, Min(maxBlock, rem))

\* Math.min(availableMinutes, remainingDaily, maxBlock, remaining)
canFit(availableMinutes, remainingDaily, maxBlock, rem) ==
    Min(Min(availableMinutes, remainingDaily), Min(maxBlock, rem))

\* the break at the head of the fill loop
cannotPlace(availableMinutes, remainingDaily, minBlock, fit) ==
    availableMinutes < minBlock \/ remainingDaily < minBlock \/ fit < minBlock

\* the PlannedBlock pushed for blockMinutes at start
newBlock(task, start, blockMinutes, isFirst) ==
    LET preferred == isPreferredWindow(task, start)
        nearDeadline == deadlineIsNear(task.deadline, start)
    IN  [id |-> <<task.id, start>>,
         taskId |-> task.id,
         start |-> start,
         end |-> start + blockMinutes * MsPerMinute,
         confidence |-> confidenceForBlock(preferred, nearDeadline, isFirst),
         reasonCodes |-> << IF isFirst THEN "FIRST_AVAILABLE" ELSE "CHUNKED",
                            IF preferred THEN "PREFERRED_WINDOW" ELSE "EARLIEST_SLOT",
                            IF nearDeadline THEN "NEAR_DEADLINE" ELSE "NORMAL_BUFFER" >>,
         locked |-> FALSE]

\* slots.splice(index, 1)
splice(s, i) == SubSeq(s, 1, i - 1) \o SubSeq(s, i + 1, Len(s))

\* lines 358-363: the slot list after the fill loop, for the slot at index
closedSlots(s, i, startV, endV) ==
    IF startV >= endV THEN splice(s, i) ELSE [s EXCEPT ![i] = Interval(startV, endV)]

\* index += 1 alone, also after a splice
closedIndexNoDecrement(i, startV, endV) == i + 1

\* the index the slot loop continues with after lines 358-363 and index += 1
closedIndex(i, startV, endV) == IF startV >= endV THEN i ELSE i + 1

\* the plan started empty
initialBlocksEmpty(locked) == <<>>

\* const planBlocks = [...lockedBlocks]
initialBlocks(locked) == locked

\* remaining = 0 after the first block of any task
remainingAfterForced(task, rem, blockMinutes) == 0

\* remaining -= blockMinutes, and remaining = 0 for a task that is not interruptible
remainingAfter(task, rem, blockMinutes) == IF task.interruptible THEN rem - blockMinutes ELSE 0

ResetLocals ==
    /\ remaining' = 0
    /\ earliest' = 0
    /\ firstBlock' = TRUE
    /\ offset' = 0
    /\ index' = 0
    /\ slotStart' = 0
    /\ slotEnd' = 0

\* line 260: nothing remains of the task
SkipTask ==
    /\ pc = "task"
    /\ taskIdx <= Len(sortedTasks)
    /\ remainingAtStart(Task) = 0
    /\ taskIdx' = taskIdx + 1
    /\ UNCHANGED <<inputs, slotsByDay, planBlocks, dailyTotals, warnings, pc, locals>>

\* lines 269-276
DeadlinePassed ==
    /\ pc = "task"
    /\ taskIdx <= Len(sortedTasks)
    /\ remainingAtStart(Task) # 0
    /\ deadlinePassed(Task, earliestOf(Task, planBlocks))
    /\ warnings' = Append(warnings, Warning("DEADLINE_ALREADY_PASSED", <<Task.title>>, {Task.id}))
    /\ taskIdx' = taskIdx + 1
    /\ UNCHANGED <<inputs, slotsByDay, planBlocks, dailyTotals, pc, locals>>

\* lines 257-282: the task enters the day loop
BeginTask ==
    /\ pc = "task"
    /\ taskIdx <= Len(sortedTasks)
    /\ remainingAtStart(Task) # 0
    /\ ~deadlinePassed(Task, earliestOf(Task, planBlocks))
    /\ remaining' = remainingAtStart(Task)
    /\ earliest' = earliestOf(Task, planBlocks)
    /\ firstBlock' = TRUE
    /\ offset' = 0
    /\ pc' = "day"
    /\ UNCHANGED <<inputs, slotsByDay, planBlocks, dailyTotals, warnings, taskIdx,
                   index, slotStart, slotEnd>>

\* lines 367-373, and on to the next task
EndTask ==
    /\ warnings' = IF remaining > 0
                   THEN Append(warnings,
                               Warning("INSUFFICIENT_TIME", <<Task.title, remaining>>, {Task.id}))
                   ELSE warnings
    /\ taskIdx' = taskIdx + 1
    /\ pc' = "task"
    /\ ResetLocals
    /\ UNCHANGED <<inputs, slotsByDay, planBlocks, dailyTotals>>

dayLoopDone == offset >= settings.planningHorizonDays \/ remaining <= 0

dayIsSkipped ==
    slots = <<>> \/ earliest > combineDateAndTime(day, settings.workDayEnd)

deadlineBeforeDay ==
    Has(Task.deadline) /\ Val(Task.deadline) < combineDateAndTime(day, settings.workDayStart)

\* lines 282-285: the day loop ends
HorizonDone ==
    /\ pc = "day"
    /\ dayLoopDone
    /\ EndTask

\* lines 289-297: continue
SkipDay ==
    /\ pc = "day"
    /\ ~dayLoopDone
    /\ dayIsSkipped
    /\ offset' = offset + 1
    /\ UNCHANGED <<inputs, slotsByDay, planBlocks, dailyTotals, warnings, pc, taskIdx,
                   remaining, earliest, firstBlock, index, slotStart, slotEnd>>

\* lines 298-300: break
DeadlineBreak ==
    /\ pc = "day"
    /\ ~dayLoopDone
    /\ ~dayIsSkipped
    /\ deadlineBeforeDay
    /\ EndTask

\* line 302: the slot loop starts
EnterDay ==
    /\ pc = "day"
    /\ ~dayLoopDone
    /\ ~dayIsSkipped
    /\ ~deadlineBeforeDay
    /\ index' = 1
    /\ pc' = "slot"
    /\ UNCHANGED <<inputs, slotsByDay, planBlocks, dailyTotals, warnings, taskIdx,
                   remaining, earliest, firstBlock, offset, slotStart, slotEnd>>

slotLoopDone == index > Len(slots) \/ remaining <= 0

\* lines 302-305: the slot loop ends, offset += 1
LeaveDay ==
    /\ pc = "slot"
    /\ slotLoopDone
    /\ offset' = offset + 1
    /\ index' = 0
    /\ pc' = "day"
    /\ UNCHANGED <<inputs, slotsByDay, planBlocks, dailyTotals, warnings, taskIdx,
                   remaining, earliest, firstBlock, slotStart, slotEnd>>

\* lines 306-314: the clipped slot is empty, continue
SkipSlot ==
    /\ pc = "slot"
    /\ ~slotLoopDone
    /\ clipEnd(slots[index], Task.deadline) <= clipStart(slots[index], earliest)
    /\ index' = index + 1
    /\ UNCHANGED <<inputs, slotsByDay, planBlocks, dailyTotals, warnings, pc, taskIdx,
                   remaining, earliest, firstBlock, offset, slotStart, slotEnd>>

\* lines 306-316: the fill loop starts on the clipped slot
EnterSlot ==
    /\ pc = "slot"
    /\ ~slotLoopDone
    /\ clipEnd(slots[index], Task.deadline) > clipStart(slots[index], earliest)
    /\ slotStart' = clipStart(slots[index], earliest)
    /\ slotEnd' = clipEnd(slots[index], Task.deadline)
    /\ pc' = "fill"
    /\ UNCHANGED <<inputs, slotsByDay, planBlocks, dailyTotals, warnings, taskIdx,
                   remaining, earliest, firstBlock, offset, index>>

fit ==
    canFit(minutesBetween(slotStart, slotEnd), remainingDailyOf(dailyTotals, dayKeyValue),
           maxBlockOf(Task), remaining)

fillStops ==
    \/ remaining <= 0
    \/ cannotPlace(minutesBetween(slotStart, slotEnd),
                   remainingDailyOf(dailyTotals, dayKeyValue), minBlockOf(Task), fit)

\* lines 358-364 for the slot bounds startV..slotEnd, then index += 1
CloseSlot(startV) ==
    /\ slotsByDay' = [slotsByDay EXCEPT ![dayKeyValue] = closedSlots(slots, index, startV, slotEnd)]
    /\ index' = closedIndex(index, startV, slotEnd)
    /\ slotStart' = 0
    /\ slotEnd' = 0
    /\ pc' = "slot"

\* lines 316-324 and 358-364: the fill loop ends without a further block
LeaveSlot ==
    /\ pc = "fill"
    /\ fillStops
    /\ CloseSlot(slotStart)
    /\ UNCHANGED <<inputs, planBlocks, dailyTotals, warnings, taskIdx, remaining, earliest,
                   firstBlock, offset>>

\* lines 326-356: one block is pushed; the loop goes on or ends (358-364)
EmitBlock ==
    /\ pc = "fill"
    /\ ~fillStops
    /\ LET block == newBlock(Task, slotStart, fit, firstBlock)
           goesOn == Task.interruptible /\ minutesBetween(block.end, slotEnd) >= minBlockOf(Task)
       IN  /\ planBlocks' = Append(planBlocks, block)
           /\ dailyTotals' = [k \in DOMAIN dailyTotals \cup {dayKeyValue} |->
                                IF k = dayKeyValue THEN Lookup(dailyTotals, k) + fit
                                ELSE dailyTotals[k]]
           /\ remaining' = remainingAfter(Task, remaining, fit)
           /\ firstBlock' = FALSE
           /\ IF goesOn
              THEN /\ slotStart' = block.end
                   /\ UNCHANGED <<slotsByDay, index, slotEnd, pc>>
              ELSE CloseSlot(block.end)
    /\ UNCHANGED <<inputs, warnings, taskIdx, earliest, offset>>

\* line 376: validateBlocks, and the result is returned
Validate ==
    /\ pc = "task"
    /\ taskIdx > Len(sortedTasks)
    /\ warnings' = warnings \o validateBlocks(planBlocks, events, settings)
    /\ pc' = "done"
    /\ UNCHANGED <<inputs, slotsByDay, planBlocks, dailyTotals, taskIdx, locals>>

----------------------------------------------------------------------------
(* Inputs                                                                  *)

MaxTasks == 2

MaxHorizon == 2

\* the time value of hh:mm:ss on day d
At(d, hh, mm, ss) == d * DayMs + ((hh * 60 + mm) * 60 + ss) * 1000

Letter(l, u) == [letter |-> l, upper |-> u]

\* the titles "a", "B" and "A"
Titles == { <<Letter(1, FALSE)>>, <<Letter(2, TRUE)>>, <<Letter(1, TRUE)>> }

MkTask(id, title, est, done, deadline, earliestStart, priority, interruptible, maxBlock, deps) ==
    [id |-> id, title |-> title, estimatedMinutes |-> est, completedMinutes |-> done,
     deadline |-> deadline, earliestStart |-> earliestStart, priority |-> priority,
     interruptible |-> interruptible, minBlockMinutes |-> 30, maxBlockMinutes |-> maxBlock,
     dependencies |-> deps, preferredTimeWindows |-> <<>>]

MkSettings(horizon) ==
    [timezone |-> "UTC", planningHorizonDays |-> horizon,
     workDayStart |-> <<9, 0>>, workDayEnd |-> <<18, 0>>,
     lunchStart |-> <<12, 0>>, lunchEnd |-> <<13, 0>>, maxDailyMinutes |-> 360]

MkEvent(start, end, busy) == [id |-> "e1", title |-> "meeting", start |-> start, end |-> end, busy |-> busy]

\* a block kept from an earlier plan: idStart is the start it was generated at
MkLocked(taskId, idStart, start, minutes) ==
    [id |-> <<taskId, idStart>>, taskId |-> taskId, start |-> start,
     end |-> start + minutes * MsPerMinute, confidence |-> 65,
     reasonCodes |-> <<"FIRST_AVAILABLE", "EARLIEST_SLOT", "NORMAL_BUFFER">>, locked |-> TRUE]

EventChoices ==
    { <<>>,
      <<MkEvent(At(0, 10, 30, 0), At(0, 11, 0, 0), TRUE)>>,
      <<MkEvent(At(0, 10, 30, 0), At(0, 11, 0, 0), FALSE)>> }

\* none; a block of task 1 generated at a sub-minute start; a block of a
\* task that is not in the list, moved by the user after it was generated
LockedChoices ==
    { <<>>,
      <<MkLocked(1, At(0, 13, 0, 30), At(0, 13, 0, 30), 60)>>,
      <<MkLocked(9, At(0, 9, 0, 0), At(0, 14, 0, 0), 120)>> }

\* one task of any shape, against events and locked blocks
SingleTaskInputs ==
    /\ \E est \in {90, 600}, done \in {0, 90}, interruptible \in BOOLEAN,
          maxBlock \in {{}, {60}},
          deadline \in {{}, {At(0, 10, 0, 0)}, {At(0, 14, 30, 30)}},
          earliestStart \in {{}, {At(0, 9, 0, 0)}} :
          tasks = <<MkTask(1, <<Letter(1, FALSE)>>, est, done, deadline, earliestStart, 3,
                           interruptible, maxBlock, {})>>
    /\ events \in EventChoices
    /\ lockedBlocks \in LockedChoices
    /\ now \in {At(0, 8, 0, 0), At(0, 9, 0, 30), At(0, 11, 0, 0)}

\* the shapes of the tasks that compete for the same days: the titles "a",
\* "B" and "A" at equal deadline and priority, and the other sort keys varied
TaskShapes(est) ==
    { MkTask(0, title, est, 0, {}, {}, 3, TRUE, {}, {}) : title \in Titles }
    \cup { MkTask(0, <<Letter(1, FALSE)>>, est, 0, deadline, {}, priority, TRUE, {}, {}) :
             deadline \in {{}, {At(0, 16, 0, 0)}}, priority \in {1, 3} }

\* several interruptible tasks; when chained, each depends on the one before it
CompetingInputs ==
    /\ \E n \in 2..MaxTasks, chained \in BOOLEAN, est \in {90, 600} :
         \E shape \in [1..n -> TaskShapes(est)] :
           tasks = [i \in 1..n |->
                      [shape[i] EXCEPT !.id = i,
                                       !.dependencies = IF chained /\ i > 1 THEN {i - 1} ELSE {}]]
    /\ events = <<MkEvent(At(0, 10, 30, 0), At(0, 11, 0, 0), TRUE)>>
    /\ lockedBlocks = <<>>
    /\ now \in {At(0, 8, 0, 0), At(0, 9, 0, 30)}

\* one interruptible task on an empty calendar, before or at the start of the
\* working day, untouched or with 70 of its minutes already done
ScenarioInputs ==
    /\ \E est \in {90, 600}, done \in {0, 70} :
          tasks = <<MkTask(1, <<Letter(1, FALSE)>>, est, done, {}, {}, 3, TRUE, {}, {})>>
    /\ events = <<>>
    /\ lockedBlocks = <<>>
    /\ now \in {At(0, 8, 0, 0), At(0, 9, 0, 0)}

\* task 1 depends on task 9, which is not in the list and has a locked block
\* 14:00-16:00, or on task 2, which comes after it in the order; task 2
\* depends on nothing
DependencyInputs ==
    /\ \E deadline \in {{}, {At(0, 14, 30, 30)}, {At(0, 17, 0, 0)}}, est \in {90, 600},
          deps \in {{9}, {2}} :
          tasks = <<MkTask(1, <<Letter(1, FALSE)>>, 90, 0, deadline, {}, 3, TRUE, {}, deps),
                    MkTask(2, <<Letter(2, TRUE)>>, est, 0, {}, {}, 3, TRUE, {}, {})>>
    /\ events = <<>>
    /\ lockedBlocks = <<MkLocked(9, At(0, 9, 0, 0), At(0, 14, 0, 0), 120)>>
    /\ now \in {At(0, 8, 0, 0), At(0, 9, 0, 30)}

\* minutesToTime(24 * 60), the latest workDayEnd extendWorkHoursForTasks gives:
\* here for task 2, whose earliestStart is 23:30
LateDaySettings(horizon) == [MkSettings(horizon) EXCEPT !.workDayEnd = <<24, 0>>]

\* a run late in the evening of a working day that ends at 24:00
LateDayInputs ==
    /\ tasks = <<MkTask(1, <<Letter(1, FALSE)>>, 90, 0, {}, {}, 3, TRUE, {}, {}),
                 MkTask(2, <<Letter(2, TRUE)>>, 90, 0, {}, {At(0, 23, 30, 0)}, 3, TRUE, {}, {})>>
    /\ events = <<>>
    /\ lockedBlocks = <<>>
    /\ now \in {At(0, 23, 0, 0), At(0, 23, 28, 30)}

\* locked blocks the user has moved into conflicts: one of 13:00-17:00, alone
\* or with blocks at 14:00-15:00 and 15:00-16:00 inside it; one after hours
ConflictLocked ==
    { <<MkLocked(9, At(0, 9, 0, 0), At(0, 13, 0, 0), 240)>>,
      <<MkLocked(9, At(0, 9, 0, 0), At(0, 13, 0, 0), 240),
        MkLocked(9, At(0, 13, 0, 0), At(0, 14, 0, 0), 60),
        MkLocked(9, At(0, 14, 0, 0), At(0, 15, 0, 0), 60)>>,
      <<MkLocked(9, At(0, 14, 0, 0), At(0, 15, 0, 0), 60),
        MkLocked(9, At(0, 9, 0, 0), At(0, 13, 0, 0), 240)>>,
      <<MkLocked(9, At(0, 9, 0, 0), At(0, 19, 0, 0), 60)>> }

\* none; or busy events at 13:30-14:00 and 16:30-17:30 around one that is not busy
ConflictEvents ==
    { <<>>,
      <<MkEvent(At(0, 13, 30, 0), At(0, 14, 0, 0), TRUE),
        MkEvent(At(0, 14, 0, 0), At(0, 15, 0, 0), FALSE),
        MkEvent(At(0, 16, 30, 0), At(0, 17, 30, 0), TRUE)>> }

\* one task planned around locked blocks that conflict with the calendar, the
\* working hours or each other
ConflictInputs ==
    /\ tasks = <<MkTask(1, <<Letter(1, FALSE)>>, 90, 0, {}, {}, 3, TRUE, {}, {})>>
    /\ events \in ConflictEvents
    /\ lockedBlocks \in ConflictLocked
    /\ now = At(0, 8, 0, 0)

\* one task in blocks of at most an hour, with a preferred window 09:00-10:00
\* on the first or the second day of the horizon (day 0 is a Monday) and a
\* deadline the same afternoon, or 49 hours after the first free slot, or none
PreferenceInputs ==
    /\ \E weekDay \in {"Mon", "Tue"}, est \in {150, 600},
          deadline \in {{}, {At(0, 17, 0, 0)}, {At(2, 10, 0, 0)}} :
          tasks = <<[MkTask(1, <<Letter(1, FALSE)>>, est, 0, deadline, {}, 3, TRUE, {60}, {})
                       EXCEPT !.preferredTimeWindows =
                                <<[days |-> {weekDay}, start |-> <<9, 0>>, end |-> <<10, 0>>]>>]>>
    /\ events = <<>>
    /\ lockedBlocks = <<>>
    /\ now \in {At(0, 8, 0, 0), At(0, 9, 59, 30)}

Init ==
    /\ \/ /\ \/ SingleTaskInputs \/ CompetingInputs \/ ScenarioInputs \/ DependencyInputs
             \/ ConflictInputs \/ PreferenceInputs
          /\ settings \in { MkSettings(h) : h \in 1..MaxHorizon }
       \/ /\ LateDayInputs
          /\ settings \in { LateDaySettings(h) : h \in 1..MaxHorizon }
    /\ sortedTasks = sortTasks(tasks)
    /\ slotsByDay = buildFreeSlots(startOfDay(now), settings, events, lockedBlocks)
    /\ planBlocks = initialBlocks(lockedBlocks)
    /\ dailyTotals = minutesByDay(lockedBlocks)
    /\ warnings = <<>>
    /\ pc = "task"
    /\ taskIdx = 1
    /\ remaining = 0
    /\ earliest = 0
    /\ firstBlock = TRUE
    /\ offset = 0
    /\ index = 0
    /\ slotStart = 0
    /\ slotEnd = 0


Next ==
    \/ SkipTask
    \/ DeadlinePassed
    \/ BeginTask
    \/ HorizonDone
    \/ SkipDay
    \/ DeadlineBreak
    \/ EnterDay
    \/ LeaveDay
    \/ SkipSlot
    \/ EnterSlot
    \/ LeaveSlot
    \/ EmitBlock
    \/ Validate

Spec == Init /\ [][Next]_vars

----------------------------------------------------------------------------
(* buildFreeSlots on its own, one day of the horizon per step              *)

MaxEvents == 2

\* working hours: 09:00-18:00, and the degenerate 18:00-09:00 and 09:00-09:00
WorkChoices == { <<<<9, 0>>, <<18, 0>>>>, <<<<18, 0>>, <<9, 0>>>>, <<<<9, 0>>, <<9, 0>>>> }

\* lunch: 12:00-13:00, the degenerate 13:00-12:00, and 08:00-10:00, which
\* starts before the working day
LunchChoices == { <<<<12, 0>>, <<13, 0>>>>, <<<<13, 0>>, <<12, 0>>>>, <<<<8, 0>>, <<10, 0>>>> }

\* events: busy and not busy at 10:30-11:00, a busy event of no length, busy
\* events across the start of the working day, across the night, across the
\* start of lunch, and after the working day
EventPool ==
    { MkEvent(At(0, 10, 30, 0), At(0, 11, 0, 0), TRUE),
      MkEvent(At(0, 10, 30, 0), At(0, 11, 0, 0), FALSE),
      MkEvent(At(0, 11, 0, 0), At(0, 11, 0, 0), TRUE),
      MkEvent(At(0, 8, 0, 0), At(0, 9, 30, 0), TRUE),
      MkEvent(At(0, 17, 0, 0), At(1, 10, 0, 0), TRUE),
      MkEvent(At(0, 11, 30, 0), At(0, 12, 30, 0), TRUE),
      MkEvent(At(0, 19, 0, 0), At(0, 20, 0, 0), TRUE) }

SlotInit ==
    /\ tasks = <<>>
    /\ \E n \in 0..MaxEvents : events \in [1..n -> EventPool]
    /\ lockedBlocks \in LockedChoices
    /\ now = At(0, 8, 0, 0)
    /\ \E h \in 1..MaxHorizon, work \in WorkChoices, lunch \in LunchChoices :
         settings = [MkSettings(h) EXCEPT !.workDayStart = work[1], !.workDayEnd = work[2],
                                          !.lunchStart = lunch[1], !.lunchEnd = lunch[2]]
    /\ sortedTasks = <<>>
    /\ slotsByDay = <<>>
    /\ planBlocks = <<>>
    /\ dailyTotals = <<>>
    /\ warnings = <<>>
    /\ pc = "build"
    /\ taskIdx = 1
    /\ remaining = 0
    /\ earliest = 0
    /\ firstBlock = TRUE
    /\ offset = 0
    /\ index = 0
    /\ slotStart = 0
    /\ slotEnd = 0

\* lines 68-97: one pass of the day loop
BuildDay ==
    /\ pc = "build"
    /\ offset < settings.planningHorizonDays
    /\ LET d == addDays(startDay, offset)
       IN  slotsByDay' = [k \in DOMAIN slotsByDay \cup {dayKey(d)} |->
                            IF k = dayKey(d) THEN freeSlotsOfDay(d, settings, events, lockedBlocks)
                            ELSE slotsByDay[k]]
    /\ offset' = offset + 1
    /\ UNCHANGED <<inputs, planBlocks, dailyTotals, warnings, pc, taskIdx, remaining,
                   earliest, firstBlock, index, slotStart, slotEnd>>

\* line 99: return slotsByDay
ReturnSlots ==
    /\ pc = "build"
    /\ offset >= settings.planningHorizonDays
    /\ pc' = "built"
    /\ UNCHANGED <<inputs, slotsByDay, planBlocks, dailyTotals, warnings, taskIdx, locals>>

SlotNext == BuildDay \/ ReturnSlots

SlotSpec == SlotInit /\ [][SlotNext]_vars

\* the steps of the loop over the tasks, lines 257-374
Planning ==
    \/ SkipTask \/ DeadlinePassed \/ BeginTask
    \/ HorizonDone \/ SkipDay \/ DeadlineBreak \/ EnterDay
    \/ LeaveDay \/ SkipSlot \/ EnterSlot
    \/ LeaveSlot \/ EmitBlock

\* Validate can be taken exactly when the loop over the tasks has ended
validateIsDue == pc = "task" /\ taskIdx > Len(sortedTasks)

\* generatePlan is one synchronous call: a step that can be taken is taken.
\* The second conjunct is WF_vars(Validate) with its enabling condition
\* written out.
FairSpec ==
    /\ Spec
    /\ WF_vars(Planning)
    /\ ([]<>~validateIsDue \/ []<><<Validate>>_vars)

----------------------------------------------------------------------------
(* generatePlan called again on its own result                             *)

\* the blocks passed in are those of a result: one of them was placed by a
\* run, as its locked flag tells
Replanned == \E i \in 1..Len(lockedBlocks) : ~lockedBlocks[i].locked

\* lines 245-254 for the second call: the same tasks, events, settings and
\* now, and all blocks of the result as lockedBlocks
Replan ==
    /\ pc = "done"
    /\ ~Replanned
    /\ lockedBlocks' = planBlocks
    /\ slotsByDay' = buildFreeSlots(startOfDay(now), settings, events, planBlocks)
    /\ planBlocks' = initialBlocks(planBlocks)
    /\ dailyTotals' = minutesByDay(planBlocks)
    /\ warnings' = <<>>
    /\ pc' = "task"
    /\ taskIdx' = 1
    /\ UNCHANGED <<tasks, events, settings, now, sortedTasks, locals>>

ReplanNext == Next \/ Replan

ReplanSpec == Init /\ [][ReplanNext]_vars

----------------------------------------------------------------------------
(* subtractIntervals on its own, one cut per step                          *)

MaxPoint == 4

MaxCuts == 2

\* the intervals with start < end between the instants 0..MaxPoint
SmallIntervals == { i \in [start : 0..MaxPoint, end : 0..MaxPoint] : i.start < i.end }

\* the base is the one slot of day 0, held also in slotStart and slotEnd; the
\* cuts are the busy events, in order
SubtractInit ==
    /\ tasks = <<>>
    /\ \E n \in 1..MaxCuts :
         \E cuts \in [1..n -> SmallIntervals] :
            events = [i \in 1..n |-> MkEvent(cuts[i].start, cuts[i].end, TRUE)]
    /\ lockedBlocks = <<>>
    /\ now = 0
    /\ settings = MkSettings(1)
    /\ sortedTasks = <<>>
    /\ \E base \in SmallIntervals :
         /\ slotsByDay = [k \in {0} |-> <<base>>]
         /\ slotStart = base.start
         /\ slotEnd = base.end
    /\ planBlocks = <<>>
    /\ dailyTotals = <<>>
    /\ warnings = <<>>
    /\ pc = "subtract"
    /\ taskIdx = 1
    /\ remaining = 0
    /\ earliest = 0
    /\ firstBlock = TRUE
    /\ offset = 0
    /\ index = 1

\* lines 42-44: one step of cuts.reduce
ApplyCut ==
    /\ pc = "subtract"
    /\ index <= Len(events)
    /\ slotsByDay' = [slotsByDay EXCEPT ![0] = flatSubtract(@, Interval(events[index].start,
                                                                        events[index].end))]
    /\ index' = index + 1
    /\ UNCHANGED <<inputs, planBlocks, dailyTotals, warnings, pc, taskIdx, remaining,
                   earliest, firstBlock, offset, slotStart, slotEnd>>

\* line 44: reduce returns the last value
ReturnRest ==
    /\ pc = "subtract"
    /\ index > Len(events)
    /\ pc' = "subtracted"
    /\ UNCHANGED <<inputs, slotsByDay, planBlocks, dailyTotals, warnings, taskIdx, locals>>

SubtractNext == ApplyCut \/ ReturnRest

SubtractSpec == SubtractInit /\ [][SubtractNext]_vars

----------------------------------------------------------------------------
(* Properties                                                              *)

\* positions in planBlocks of the blocks generated in this run
NewIdx == (Len(lockedBlocks) + 1)..Len(planBlocks)

NewOf(id) == { i \in NewIdx : planBlocks[i].taskId = id }

AsInterval(b) == Interval(b.start, b.end)

RECURSIVE totalMs(_, _)
\* the summed length, in ms, of the blocks at the positions idx
totalMs(blocks, idx) ==
    IF idx = {} THEN 0
    ELSE LET i == CHOOSE x \in idx : TRUE
         IN  (blocks[i].end - blocks[i].start) + totalMs(blocks, idx \ {i})

\* positions in sortedTasks of the tasks whose processing has ended
Processed == 1..(taskIdx - 1)

WarningsOf(code, id) ==
    { w \in 1..Len(warnings) : warnings[w].code = code /\ warnings[w].taskId = {id} }

\* the minutes reported as unscheduled for the task, 0 without a warning
Leftover(id) ==
    IF WarningsOf("INSUFFICIENT_TIME", id) = {} THEN 0
    ELSE warnings[CHOOSE w \in WarningsOf("INSUFFICIENT_TIME", id) : TRUE].message[2]

BusyEvents == { e \in 1..Len(events) : events[e].busy }

\* C1: no newly generated block overlaps another block of the plan (new or
\* locked) or a busy calendar event.
C1_NoOverlap ==
    \A i \in NewIdx :
        /\ \A j \in 1..Len(planBlocks) :
               j # i => ~overlaps(AsInterval(planBlocks[i]), AsInterval(planBlocks[j]))
        /\ \A e \in BusyEvents :
               ~overlaps(AsInterval(planBlocks[i]), AsInterval(events[e]))

\* C2: every newly generated block lies inside the working hours of the day
\* it starts on and does not overlap that day's lunch break.
C2_InsideWorkHours ==
    \A i \in NewIdx :
        LET b == planBlocks[i]
            lunch == createInterval(combineDateAndTime(b.start, settings.lunchStart),
                                    combineDateAndTime(b.start, settings.lunchEnd))
        IN  /\ b.start >= combineDateAndTime(b.start, settings.workDayStart)
            /\ b.end <= combineDateAndTime(b.start, settings.workDayEnd)
            /\ lunch # <<>> => ~overlaps(AsInterval(b), lunch[1])

StartingOn(blocks, k) == { i \in 1..Len(blocks) : dayKey(blocks[i].start) = k }

DaysOf(blocks) == { dayKey(blocks[i].start) : i \in 1..Len(blocks) }

LockedWithinCap ==
    \A k \in DaysOf(lockedBlocks) :
        totalMs(lockedBlocks, StartingOn(lockedBlocks, k)) <= settings.maxDailyMinutes * MsPerMinute

\* C3: when the locked blocks respect the daily cap, the blocks of the plan
\* that start on one day never total more than maxDailyMinutes.
C3_DailyCap ==
    LockedWithinCap =>
        \A k \in DaysOf(planBlocks) :
            totalMs(planBlocks, StartingOn(planBlocks, k)) <= settings.maxDailyMinutes * MsPerMinute

\* a day is filled to the cap with locked and new blocks, and a task is left over
C3_Witness ==
    /\ pc = "done"
    /\ lockedBlocks # <<>>
    /\ \E k \in DaysOf(lockedBlocks) :
         /\ totalMs(planBlocks, StartingOn(planBlocks, k)) = settings.maxDailyMinutes * MsPerMinute
         /\ \E i \in NewIdx : dayKey(planBlocks[i].start) = k
    /\ \E t \in 1..Len(tasks) : Leftover(tasks[t].id) > 0

\* C4 as claimed: for a processed interruptible task, the emitted minutes plus
\* the reported leftover equal estimatedMinutes - completedMinutes.
C4_Original ==
    \A p \in Processed :
        LET t == sortedTasks[p]
        IN  t.interruptible =>
              totalMs(planBlocks, NewOf(t.id)) + Leftover(t.id) * MsPerMinute
                = (t.estimatedMinutes - t.completedMinutes) * MsPerMinute

\* C4 (amended): for a processed interruptible task that was not refused with
\* DEADLINE_ALREADY_PASSED, the emitted minutes plus the reported leftover
\* equal max(0, estimatedMinutes - completedMinutes - locked minutes of the task).
C4_Accounting ==
    \A p \in Processed :
        LET t == sortedTasks[p]
        IN  (t.interruptible /\ WarningsOf("DEADLINE_ALREADY_PASSED", t.id) = {}) =>
              totalMs(planBlocks, NewOf(t.id)) + Leftover(t.id) * MsPerMinute
                = Max(0, t.estimatedMinutes - t.completedMinutes
                         - sumMinutes(SelectSeq(lockedBlocks, LAMBDA b : b.taskId = t.id)))
                  * MsPerMinute

\* an interruptible task with a locked block ends with new blocks and a leftover
C4_Witness ==
    /\ pc = "done"
    /\ \E p \in Processed :
         LET t == sortedTasks[p]
         IN  /\ t.interruptible
             /\ \E i \in 1..Len(lockedBlocks) : lockedBlocks[i].taskId = t.id
             /\ Cardinality(NewOf(t.id)) >= 2
             /\ Leftover(t.id) > 0

\* the remaining minutes R of a task at the start of its processing
RequiredMinutes(t) ==
    Max(0, t.estimatedMinutes - t.completedMinutes
           - sumMinutes(SelectSeq(lockedBlocks, LAMBDA b : b.taskId = t.id)))

\* C5: a task that is not interruptible and has R > 0 remaining gets at most
\* one block, of exactly R minutes; when its processing ends without a block
\* a warning names the task.
C5_OneBlockOfR ==
    \A p \in 1..Len(sortedTasks) :
        LET t == sortedTasks[p]
        IN  (~t.interruptible /\ RequiredMinutes(t) > 0) =>
              /\ Cardinality(NewOf(t.id)) <= 1
              /\ \A i \in NewOf(t.id) :
                     planBlocks[i].end - planBlocks[i].start = RequiredMinutes(t) * MsPerMinute
              /\ (p \in Processed /\ NewOf(t.id) = {}) =>
                     \E w \in 1..Len(warnings) : warnings[w].taskId = {t.id}

\* a task that is not interruptible was placed in one block of R minutes
C5_Witness ==
    /\ pc = "done"
    /\ \E p \in Processed :
         LET t == sortedTasks[p]
         IN  /\ ~t.interruptible
             /\ RequiredMinutes(t) > 0
             /\ Cardinality(NewOf(t.id)) = 1

\* C7: the locked blocks passed in stay in the plan, in place and unchanged in
\* every field, and none of them occurs a second time.
C7_LockedKept ==
    /\ Len(planBlocks) >= Len(lockedBlocks)
    /\ \A i \in 1..Len(lockedBlocks) :
         /\ planBlocks[i] = lockedBlocks[i]
         /\ Cardinality({ j \in 1..Len(planBlocks) : planBlocks[j].id = lockedBlocks[i].id
                                                      /\ planBlocks[j].start = lockedBlocks[i].start })
              = Cardinality({ j \in 1..Len(lockedBlocks) : lockedBlocks[j].id = lockedBlocks[i].id
                                                           /\ lockedBlocks[j].start = lockedBlocks[i].start })

\* a run that had a locked block of a task has ended with new blocks of that task
C7_Witness ==
    /\ pc = "done"
    /\ \E i \in 1..Len(lockedBlocks) : NewOf(lockedBlocks[i].taskId) # {}

\* C8: the new blocks of a task never total more than max(0, estimated -
\* completed - locked minutes of the task); when that is 0 the task gets no
\* new block and no warning names it.
C8_LockedCounted ==
    \A p \in 1..Len(sortedTasks) :
        LET t == sortedTasks[p]
        IN  /\ totalMs(planBlocks, NewOf(t.id)) <= RequiredMinutes(t) * MsPerMinute
            /\ RequiredMinutes(t) = 0 =>
                 /\ NewOf(t.id) = {}
                 /\ \A w \in 1..Len(warnings) : warnings[w].taskId # {t.id}

\* a task with a locked block got exactly the minutes the locked block left open
C8_Witness ==
    /\ pc = "done"
    /\ \E p \in Processed :
         LET t == sortedTasks[p]
         IN  /\ \E i \in 1..Len(lockedBlocks) : lockedBlocks[i].taskId = t.id
             /\ RequiredMinutes(t) > 0
             /\ RequiredMinutes(t) < t.estimatedMinutes - t.completedMinutes
             /\ totalMs(planBlocks, NewOf(t.id)) = RequiredMinutes(t) * MsPerMinute

\* C9: a processed task that still has minutes to place and whose deadline is
\* before now gets no block and exactly one DEADLINE_ALREADY_PASSED warning.
C9_PastDeadlineRefused ==
    \A p \in Processed :
        LET t == sortedTasks[p]
        IN  (Has(t.deadline) /\ Val(t.deadline) < now /\ RequiredMinutes(t) > 0) =>
              /\ NewOf(t.id) = {}
              /\ Cardinality(WarningsOf("DEADLINE_ALREADY_PASSED", t.id)) = 1

\* the order of the claim with titles compared by code units
PrecedesByCodeUnit(a, b) ==
    \/ Has(a.deadline) /\ ~Has(b.deadline)
    \/ Has(a.deadline) /\ Has(b.deadline) /\ Val(a.deadline) < Val(b.deadline)
    \/ /\ a.deadline = b.deadline
       /\ \/ a.priority > b.priority
          \/ /\ a.priority = b.priority
             /\ compareKeys([i \in 1..Len(a.title) |-> codeUnit(a.title[i])],
                            [i \in 1..Len(b.title) |-> codeUnit(b.title[i])]) < 0

\* the order with titles compared by collation: letters first, whatever their
\* case, then lower case before upper case
PrecedesByCollation(a, b) ==
    \/ Has(a.deadline) /\ ~Has(b.deadline)
    \/ Has(a.deadline) /\ Has(b.deadline) /\ Val(a.deadline) < Val(b.deadline)
    \/ /\ a.deadline = b.deadline
       /\ \/ a.priority > b.priority
          \/ /\ a.priority = b.priority
             /\ \/ compareKeys(letterKeys(a.title), letterKeys(b.title)) < 0
                \/ /\ letterKeys(a.title) = letterKeys(b.title)
                   /\ compareKeys(caseKeys(a.title), caseKeys(b.title)) < 0

PositionOf(id) == CHOOSE p \in 1..Len(sortedTasks) : sortedTasks[p].id = id

\* the tasks are processed in the order of sortedTasks: blocks are appended
\* task by task, and only tasks up to the current one have blocks or warnings
AllocatedInOrder ==
    /\ \A i, j \in NewIdx :
         i < j => PositionOf(planBlocks[i].taskId) <= PositionOf(planBlocks[j].taskId)
    /\ \A i \in NewIdx : PositionOf(planBlocks[i].taskId) <= taskIdx
    /\ \A w \in 1..Len(warnings) :
         \A p \in 1..Len(sortedTasks) :
            warnings[w].taskId = {sortedTasks[p].id} => p <= taskIdx

\* C10 as claimed: no task was processed after one it precedes in the order
\* deadline ascending (none last), priority descending, title by code units.
C10_Original ==
    /\ \A p, q \in Processed :
         p < q => ~PrecedesByCodeUnit(sortedTasks[q], sortedTasks[p])
    /\ AllocatedInOrder

\* C10 (amended): the processing order is the input list reordered by deadline
\* ascending (none last), priority descending, then title by collation; tasks
\* equal in all three keep their input order; blocks are allocated in that order.
C10_Order ==
    /\ Len(sortedTasks) = Len(tasks)
    /\ \A t \in 1..Len(tasks) : \E p \in 1..Len(sortedTasks) : sortedTasks[p] = tasks[t]
    /\ \A p, q \in 1..Len(sortedTasks) :
         p < q =>
           /\ ~PrecedesByCollation(sortedTasks[q], sortedTasks[p])
           /\ ~PrecedesByCollation(sortedTasks[p], sortedTasks[q]) =>
                sortedTasks[p].id < sortedTasks[q].id
    /\ AllocatedInOrder

\* two tasks differ only in title; the one that is later in the input comes
\* first in the order, takes the whole daily cap and leaves the other unplaced
C10_Witness ==
    /\ pc = "done"
    /\ Len(tasks) >= 2
    /\ \E p, q \in 1..Len(sortedTasks) :
         /\ p < q
         /\ sortedTasks[p].id > sortedTasks[q].id
         /\ sortedTasks[p].deadline = sortedTasks[q].deadline
         /\ sortedTasks[p].priority = sortedTasks[q].priority
         /\ sortedTasks[p].title # sortedTasks[q].title
         /\ NewOf(sortedTasks[p].id) # {}
         /\ NewOf(sortedTasks[q].id) = {}
         /\ Leftover(sortedTasks[q].id) > 0

FailureCodes == {"DEADLINE_ALREADY_PASSED", "INSUFFICIENT_TIME"}

\* the warnings of the two failure codes that name the task
FailuresOf(id) ==
    { w \in 1..Len(warnings) : warnings[w].code \in FailureCodes /\ warnings[w].taskId = {id} }

\* what the run has recorded for a task by the end of its processing: nothing
\* was left to place, or blocks were emitted, or a warning names it
HasOutcome(t) ==
    \/ RequiredMinutes(t) = 0
    \/ NewOf(t.id) # {}
    \/ FailuresOf(t.id) # {}

\* C11: a failure warning never aborts the run: every task whose turn has
\* passed has its outcome, whatever the tasks before it ended with, and the
\* result is returned only after every task of the order had its turn; a task
\* has at most one failure warning, and every failure warning names a task
\* whose turn has come.
C11_FailureIsolation ==
    /\ pc = "done" => taskIdx = Len(sortedTasks) + 1
    /\ \A p \in Processed : HasOutcome(sortedTasks[p])
    /\ \A p \in 1..Len(sortedTasks) : Cardinality(FailuresOf(sortedTasks[p].id)) <= 1
    /\ \A w \in 1..Len(warnings) :
         warnings[w].code \in FailureCodes =>
           \E p \in Processed : warnings[w].taskId = {sortedTasks[p].id}

\* the run has returned: a task was refused for its deadline, and a task after
\* it in the order got blocks and was left with minutes unscheduled
C11_Witness ==
    /\ pc = "done"
    /\ \E p, q \in 1..Len(sortedTasks) :
         /\ p < q
         /\ WarningsOf("DEADLINE_ALREADY_PASSED", sortedTasks[p].id) # {}
         /\ NewOf(sortedTasks[q].id) # {}
         /\ WarningsOf("INSUFFICIENT_TIME", sortedTasks[q].id) # {}

\* the instants of day k at which the free time of the day can begin or end
Instants(k) ==
    LET d == k * DayMs
    IN  { combineDateAndTime(d, settings.workDayStart), combineDateAndTime(d, settings.workDayEnd),
          combineDateAndTime(d, settings.lunchStart), combineDateAndTime(d, settings.lunchEnd) }
        \cup { events[e].start : e \in 1..Len(events) } \cup { events[e].end : e \in 1..Len(events) }
        \cup { lockedBlocks[i].start : i \in 1..Len(lockedBlocks) }
        \cup { lockedBlocks[i].end : i \in 1..Len(lockedBlocks) }
        \cup { slotsByDay[k][i].start : i \in 1..Len(slotsByDay[k]) }
        \cup { slotsByDay[k][i].end : i \in 1..Len(slotsByDay[k]) }

\* the instant p lies in the half-open span from s to e; no instant does when e <= s
Within(p, s, e) == s <= p /\ p < e

\* p is working time of day k that is neither lunch nor a busy event nor a locked block
IsFreeAt(k, p) ==
    LET d == k * DayMs
    IN  /\ Within(p, combineDateAndTime(d, settings.workDayStart),
                     combineDateAndTime(d, settings.workDayEnd))
        /\ ~Within(p, combineDateAndTime(d, settings.lunchStart),
                      combineDateAndTime(d, settings.lunchEnd))
        /\ \A e \in BusyEvents : ~Within(p, events[e].start, events[e].end)
        /\ \A i \in 1..Len(lockedBlocks) : ~Within(p, lockedBlocks[i].start, lockedBlocks[i].end)

\* C12: the list built for a day covers exactly the working time of the day
\* that is neither lunch nor a busy event nor a locked block; it is sorted by
\* start and its slots are non-empty and pairwise disjoint; a working interval
\* with end <= start gives the empty list.
C12_FreeSlots ==
    /\ \A k \in DOMAIN slotsByDay :
         LET list == slotsByDay[k]
         IN  /\ \A i \in 1..Len(list) : list[i].start < list[i].end
             /\ \A i \in 1..(Len(list) - 1) : list[i].end <= list[i + 1].start
             /\ \A p \in Instants(k) :
                    (\E i \in 1..Len(list) : Within(p, list[i].start, list[i].end)) <=> IsFreeAt(k, p)
             /\ combineDateAndTime(k * DayMs, settings.workDayEnd)
                  <= combineDateAndTime(k * DayMs, settings.workDayStart) => list = <<>>
    /\ pc = "built" =>
         /\ DOMAIN slotsByDay = { dayKey(addDays(startDay, o)) : o \in 0..(settings.planningHorizonDays - 1) }
         /\ slotsByDay = buildFreeSlots(startDay, settings, events, lockedBlocks)

\* the lists are built; among the events are one that is not busy and one of
\* no length, a locked block is given, and the first day has three free slots
C12_Witness ==
    /\ pc = "built"
    /\ \E e \in 1..Len(events) : ~events[e].busy
    /\ \E e \in 1..Len(events) : events[e].busy /\ events[e].end <= events[e].start
    /\ lockedBlocks # <<>>
    /\ Len(slotsByDay[dayKey(startDay)]) = 3

\* the settings and calendar of the two scenarios: 09:00-18:00, lunch
\* 12:00-13:00, 360 minutes a day, one day, nothing on the calendar, the run
\* starts at or before 09:00, and one interruptible task with nothing done,
\* blocks of at least 30 minutes and no other constraint
ScenarioDay(est) ==
    /\ settings = MkSettings(1)
    /\ events = <<>>
    /\ lockedBlocks = <<>>
    /\ now <= At(0, 9, 0, 0) /\ startOfDay(now) = 0
    /\ Len(tasks) = 1
    /\ tasks[1].estimatedMinutes = est
    /\ tasks[1].completedMinutes = 0
    /\ tasks[1].interruptible
    /\ tasks[1].minBlockMinutes = 30
    /\ ~Has(tasks[1].maxBlockMinutes)
    /\ ~Has(tasks[1].deadline)
    /\ ~Has(tasks[1].earliestStart)
    /\ tasks[1].preferredTimeWindows = <<>>
    /\ tasks[1].dependencies = {}

\* C13: in the scenario with estimatedMinutes = 90 the run returns exactly one
\* block, 09:00-10:30, with confidence 0.65 and the reason codes
\* FIRST_AVAILABLE, EARLIEST_SLOT, NORMAL_BUFFER, and no warning.
C13_OneBlock ==
    (ScenarioDay(90) /\ pc = "done") =>
        /\ Len(planBlocks) = 1
        /\ planBlocks[1].taskId = tasks[1].id
        /\ planBlocks[1].start = At(0, 9, 0, 0)
        /\ planBlocks[1].end = At(0, 10, 30, 0)
        /\ planBlocks[1].confidence = 65
        /\ planBlocks[1].reasonCodes = <<"FIRST_AVAILABLE", "EARLIEST_SLOT", "NORMAL_BUFFER">>
        /\ warnings = <<>>

\* the scenario of 90 minutes has run to its result from 09:00 sharp
C13_Witness == ScenarioDay(90) /\ pc = "done" /\ now = At(0, 9, 0, 0)

\* C14: in the scenario with estimatedMinutes = 600 the emitted blocks total
\* exactly 360 minutes and exactly one INSUFFICIENT_TIME warning is emitted,
\* which reports 240 minutes.
C14_CapAndLeftover ==
    (ScenarioDay(600) /\ pc = "done") =>
        /\ totalMs(planBlocks, NewIdx) = 360 * MsPerMinute
        /\ Cardinality({ w \in 1..Len(warnings) : warnings[w].code = "INSUFFICIENT_TIME" }) = 1
        /\ Cardinality(WarningsOf("INSUFFICIENT_TIME", tasks[1].id)) = 1
        /\ Leftover(tasks[1].id) = 240

\* the scenario of 600 minutes has run to its result, with blocks before and
\* after lunch
C14_Witness ==
    /\ ScenarioDay(600)
    /\ pc = "done"
    /\ \E i, j \in NewIdx : planBlocks[i].end <= At(0, 12, 0, 0) /\ planBlocks[j].start >= At(0, 13, 0, 0)

\* C15: every newly generated block has start < end and lies within one
\* calendar day: its last millisecond is on the day of its start.
C15_SameDay ==
    \A i \in NewIdx :
        /\ planBlocks[i].start < planBlocks[i].end
        /\ dayKey(planBlocks[i].end - 1) = dayKey(planBlocks[i].start)

\* p lies in one of the slots of the list
Covered(list, p) == \E i \in 1..Len(list) : Within(p, list[i].start, list[i].end)

\* C16: between tasks, the free-slot list of every day holds exactly the time
\* that was free at the start of the run and is not covered by a block
\* emitted since; stated for the time from now on, the time later tasks can use.
C16_FreeTimeConserved ==
    pc \in {"task", "done"} =>
        \A k \in DOMAIN slotsByDay :
            \A p \in Instants(k) \cup {now}
                     \cup { planBlocks[i].start : i \in NewIdx } \cup { planBlocks[i].end : i \in NewIdx } :
                p >= now =>
                    (Covered(slotsByDay[k], p)
                       <=> (IsFreeAt(k, p)
                              /\ \A i \in NewIdx : ~Within(p, planBlocks[i].start, planBlocks[i].end)))

\* positions in planBlocks of the blocks that were in the plan when the task
\* at position p of the order had its turn: the locked blocks and the blocks
\* of the tasks before it
PriorBlocks(p) ==
    { i \in 1..Len(planBlocks) :
        i <= Len(lockedBlocks) \/ PositionOf(planBlocks[i].taskId) < p }

RECURSIVE MaxOf(_)
MaxOf(S) ==
    LET x == CHOOSE v \in S : TRUE
    IN  IF S = {x} THEN x ELSE Max(x, MaxOf(S \ {x}))

\* earliest of the task at position p: its earliestStart, or now without one,
\* or the latest end of a prior block of one of its dependencies if that is later
EarliestAt(p) ==
    LET t == sortedTasks[p]
    IN  MaxOf({ IF Has(t.earliestStart) THEN Val(t.earliestStart) ELSE now }
              \cup { planBlocks[i].end : i \in { j \in PriorBlocks(p) :
                                                   planBlocks[j].taskId \in t.dependencies } })

\* every new block starts at or after the earliest of its task
StartsAfterEarliest ==
    \A i \in NewIdx : planBlocks[i].start >= EarliestAt(PositionOf(planBlocks[i].taskId))

\* C17: every new block starts at or after the earliest of its task and, when
\* the task has a deadline, ends at or before the deadline.
C17_WithinWindow ==
    /\ StartsAfterEarliest
    /\ \A i \in NewIdx :
         LET t == sortedTasks[PositionOf(planBlocks[i].taskId)]
         IN  Has(t.deadline) => planBlocks[i].end <= Val(t.deadline)

\* C18: no newly generated block lies before now, whatever the earliestStart
\* of its task; a block that starts at or after now also ends after now,
\* which is what is stated here.
C18_NotBeforeNow == \A i \in NewIdx : planBlocks[i].end > now

\* a slot of the lists that, restricted to the window of the task at position
\* p, still holds minBlockMinutes on a day that is minBlockMinutes below the cap
UsableSlot(p) ==
    LET t == sortedTasks[p]
    IN  \E k \in DOMAIN slotsByDay :
           /\ settings.maxDailyMinutes - Lookup(dailyTotals, k) >= t.minBlockMinutes
           /\ \E i \in 1..Len(slotsByDay[k]) :
                 LET from == Max(slotsByDay[k][i].start, EarliestAt(p))
                     to == IF Has(t.deadline) THEN Min(slotsByDay[k][i].end, Val(t.deadline))
                           ELSE slotsByDay[k][i].end
                 IN  to - from >= t.minBlockMinutes * MsPerMinute

\* C19: when the turn of an interruptible task has just ended with minutes
\* left over, no day of the horizon has a free slot that, restricted to the
\* task's window, still holds minBlockMinutes while the day is at least
\* minBlockMinutes below the daily cap.
C19_TimeReallyMissing ==
    (pc = "task" /\ taskIdx > 1) =>
        LET p == taskIdx - 1
            t == sortedTasks[p]
        IN  (t.interruptible /\ Leftover(t.id) > 0) => ~UsableSlot(p)

\* the earliest of the task at position p is after its deadline
PastWindow(p) ==
    Has(sortedTasks[p].deadline) /\ EarliestAt(p) > Val(sortedTasks[p].deadline)

\* the task at position p has exactly one DEADLINE_ALREADY_PASSED warning and no block
RefusedOnce(p) ==
    /\ Cardinality(WarningsOf("DEADLINE_ALREADY_PASSED", sortedTasks[p].id)) = 1
    /\ NewOf(sortedTasks[p].id) = {}

\* the step leaves every free-slot list, every daily total and the plan as
\* they are and passes on to the next task
TurnWithoutEffect ==
    /\ slotsByDay' = slotsByDay
    /\ dailyTotals' = dailyTotals
    /\ planBlocks' = planBlocks
    /\ taskIdx' = taskIdx + 1

\* C20 as claimed: every task whose earliest is after its deadline ends its
\* turn with exactly one DEADLINE_ALREADY_PASSED warning and no block, and its
\* turn leaves the free-slot lists and the daily totals unchanged.
C20_Original ==
    /\ [](\A p \in Processed : PastWindow(p) => RefusedOnce(p))
    /\ [][(pc = "task" /\ taskIdx <= Len(sortedTasks) /\ PastWindow(taskIdx))
            => TurnWithoutEffect]_vars

\* C20 (amended): every task that still has minutes to place and whose
\* earliest is after its deadline ends its turn with exactly one
\* DEADLINE_ALREADY_PASSED warning and no block, and its turn leaves the
\* free-slot lists and the daily totals unchanged.
C20_RefusedWithoutEffect ==
    /\ [](\A p \in Processed :
            (PastWindow(p) /\ RequiredMinutes(sortedTasks[p]) > 0) => RefusedOnce(p))
    /\ [][(pc = "task" /\ taskIdx <= Len(sortedTasks) /\ PastWindow(taskIdx)
             /\ RequiredMinutes(Task) > 0)
            => TurnWithoutEffect]_vars

\* the run has returned; a task whose own earliest is before its deadline was
\* refused because a block of a dependency ends after the deadline, and the
\* task after it got blocks
C20_Witness ==
    /\ pc = "done"
    /\ \E p, q \in 1..Len(sortedTasks) :
         LET t == sortedTasks[p]
         IN  /\ p < q
             /\ RequiredMinutes(t) > 0
             /\ PastWindow(p)
             /\ earliestStartOf(t) <= Val(t.deadline)
             /\ RefusedOnce(p)
             /\ NewOf(sortedTasks[q].id) # {}

\* the task at position p lists dependencies, and each of them has no locked
\* block and comes after it in the order
Unenforced(p) ==
    LET t == sortedTasks[p]
    IN  /\ t.dependencies # {}
        /\ \A d \in t.dependencies :
              /\ \A i \in 1..Len(lockedBlocks) : lockedBlocks[i].taskId # d
              /\ \E q \in (p + 1)..Len(sortedTasks) : sortedTasks[q].id = d

\* C21: a task whose dependencies all come after it in the order and have no
\* locked block is placed as if it had none: during its turn earliest is its
\* earliestStart, or now without one; it is refused for its deadline exactly
\* when that instant is after the deadline and minutes remain; and the only
\* warnings that name it are the two failure warnings.
C21_BestEffort ==
    /\ (pc \in {"day", "slot", "fill"} /\ Unenforced(taskIdx)) => earliest = earliestStartOf(Task)
    /\ \A p \in Processed :
         LET t == sortedTasks[p]
         IN  Unenforced(p) =>
               /\ WarningsOf("DEADLINE_ALREADY_PASSED", t.id) # {}
                    <=> (RequiredMinutes(t) > 0 /\ Has(t.deadline)
                           /\ earliestStartOf(t) > Val(t.deadline))
               /\ \A w \in 1..Len(warnings) :
                      warnings[w].taskId = {t.id} => warnings[w].code \in FailureCodes

\* the run has returned with a block of a task that starts before a block of
\* one of its dependencies ends, while other blocks were in the plan before
\* the task's turn
C21_Witness ==
    /\ pc = "done"
    /\ lockedBlocks # <<>>
    /\ \E p \in 1..Len(sortedTasks) :
         /\ Unenforced(p)
         /\ \E d \in sortedTasks[p].dependencies :
              \E i \in NewOf(sortedTasks[p].id), j \in NewOf(d) :
                 planBlocks[i].start < planBlocks[j].end

\* the length in ms of the block pushed by the step
PushedMs == planBlocks'[Len(planBlocks')].end - planBlocks'[Len(planBlocks')].start

\* C22: a block pushed for an interruptible task is at least minBlockMinutes
\* long, at most maxBlockMinutes when that is set, at most the minutes that
\* remained of the task before the step, and at most what the day of the block
\* had left of maxDailyMinutes before the step.
C22_BlockLength ==
    [][(Len(planBlocks') > Len(planBlocks) /\ Task.interruptible) =>
          /\ Len(planBlocks') = Len(planBlocks) + 1
          /\ planBlocks'[Len(planBlocks')].taskId = Task.id
          /\ PushedMs >= Task.minBlockMinutes * MsPerMinute
          /\ Has(Task.maxBlockMinutes) => PushedMs <= Val(Task.maxBlockMinutes) * MsPerMinute
          /\ PushedMs <= remaining * MsPerMinute
          /\ PushedMs <= (settings.maxDailyMinutes
                            - Lookup(dailyTotals, dayKey(planBlocks'[Len(planBlocks')].start)))
                         * MsPerMinute]_vars

\* the run has returned; an interruptible task with maxBlockMinutes got a block
\* of exactly that length and a last block that is shorter
C22_Witness ==
    /\ pc = "done"
    /\ \E p \in Processed :
         LET t == sortedTasks[p]
         IN  /\ t.interruptible
             /\ Has(t.maxBlockMinutes)
             /\ \E i, j \in NewOf(t.id) :
                  /\ planBlocks[i].end - planBlocks[i].start = Val(t.maxBlockMinutes) * MsPerMinute
                  /\ planBlocks[j].end - planBlocks[j].start < Val(t.maxBlockMinutes) * MsPerMinute

\* the task is not interruptible and its maxBlockMinutes is below its remaining minutes
Unplaceable(t) ==
    ~t.interruptible /\ Has(t.maxBlockMinutes) /\ Val(t.maxBlockMinutes) < RequiredMinutes(t)

\* the one INSUFFICIENT_TIME warning of the task reports all its remaining minutes
FullLeftover(t) ==
    /\ Cardinality(WarningsOf("INSUFFICIENT_TIME", t.id)) = 1
    /\ Leftover(t.id) = RequiredMinutes(t)

\* C23 as claimed: a task that is not interruptible and whose maxBlockMinutes
\* is below its remaining minutes R ends its turn without a block and with an
\* INSUFFICIENT_TIME warning that reports R.
C23_Original ==
    \A p \in 1..Len(sortedTasks) :
        LET t == sortedTasks[p]
        IN  Unplaceable(t) =>
              /\ NewOf(t.id) = {}
              /\ p \in Processed => FullLeftover(t)

\* C23 (amended): such a task never gets a block; its turn ends with an
\* INSUFFICIENT_TIME warning that reports R, unless its earliest is after its
\* deadline, and then with the DEADLINE_ALREADY_PASSED warning alone.
C23_NeverPlaced ==
    \A p \in 1..Len(sortedTasks) :
        LET t == sortedTasks[p]
        IN  Unplaceable(t) =>
              /\ NewOf(t.id) = {}
              /\ p \in Processed =>
                   IF PastWindow(p)
                   THEN RefusedOnce(p) /\ WarningsOf("INSUFFICIENT_TIME", t.id) = {}
                   ELSE FullLeftover(t) /\ WarningsOf("DEADLINE_ALREADY_PASSED", t.id) = {}

\* the run has returned; a task that is not interruptible, with maxBlockMinutes
\* below R, is reported with all R minutes while a free slot of R minutes is
\* left on a day that has R minutes of allowance
C23_Witness ==
    /\ pc = "done"
    /\ \E p \in Processed :
         LET t == sortedTasks[p]
         IN  /\ Unplaceable(t)
             /\ FullLeftover(t)
             /\ \E k \in DOMAIN slotsByDay :
                  /\ settings.maxDailyMinutes - Lookup(dailyTotals, k) >= RequiredMinutes(t)
                  /\ \E i \in 1..Len(slotsByDay[k]) :
                       /\ slotsByDay[k][i].start >= now
                       /\ slotsByDay[k][i].end - slotsByDay[k][i].start
                            >= RequiredMinutes(t) * MsPerMinute

ValidatorCodes == {"OUTSIDE_WORK_HOURS", "OVERLAPS_BUSY", "BLOCK_OVERLAP"}

\* C24: the result of a run without locked blocks holds no warning of the
\* validator: no OUTSIDE_WORK_HOURS, no OVERLAPS_BUSY and no BLOCK_OVERLAP.
C24_ValidatorSilent ==
    (pc = "done" /\ lockedBlocks = <<>>) =>
        \A w \in 1..Len(warnings) : warnings[w].code \notin ValidatorCodes

\* the BLOCK_OVERLAP warnings for the pair of blocks at positions i and j
OverlapWarnings(i, j) ==
    { w \in 1..Len(warnings) :
        /\ warnings[w].code = "BLOCK_OVERLAP"
        /\ warnings[w].message \in { <<planBlocks[i].id, planBlocks[j].id>>,
                                     <<planBlocks[j].id, planBlocks[i].id>> } }

\* C25: in the result, every two blocks of the plan whose intervals overlap
\* have a BLOCK_OVERLAP warning for their pair.
C25_EveryOverlapReported ==
    pc = "done" =>
        \A i, j \in 1..Len(planBlocks) :
            (i < j /\ overlaps(AsInterval(planBlocks[i]), AsInterval(planBlocks[j])))
                => OverlapWarnings(i, j) # {}

\* the warnings of the code whose message names the block
BlockWarnings(code, b) ==
    { w \in 1..Len(warnings) : warnings[w].code = code /\ warnings[w].message = <<b.id>> }

\* the block starts before workDayStart or ends after workDayEnd of its day
OutsideHours(b) ==
    \/ b.start < combineDateAndTime(b.start, settings.workDayStart)
    \/ b.end > combineDateAndTime(b.start, settings.workDayEnd)

\* C26: in the result every locked block is in the plan as it was passed in;
\* it has an OUTSIDE_WORK_HOURS warning exactly when it lies outside the
\* working hours of its day, and one OVERLAPS_BUSY warning for each busy event
\* it overlaps; and the step that validates leaves the plan as it was.
C26_Informational ==
    /\ [](pc = "done" =>
            \A i \in 1..Len(lockedBlocks) :
                LET b == lockedBlocks[i]
                IN  /\ planBlocks[i] = b
                    /\ Cardinality(BlockWarnings("OUTSIDE_WORK_HOURS", b))
                         = (IF OutsideHours(b) THEN 1 ELSE 0)
                    /\ Cardinality(BlockWarnings("OVERLAPS_BUSY", b))
                         = Cardinality({ e \in BusyEvents : overlaps(AsInterval(b), AsInterval(events[e])) }))
    /\ [][(pc # "done" /\ pc' = "done") => planBlocks' = planBlocks]_vars

\* the run has returned; a locked block overlaps two busy events and has two
\* warnings for it, and a new block was placed on the same day
C26_Witness ==
    /\ pc = "done"
    /\ \E i \in 1..Len(lockedBlocks) :
         /\ Cardinality(BlockWarnings("OVERLAPS_BUSY", lockedBlocks[i])) = 2
         /\ \E j \in NewIdx : dayKey(planBlocks[j].start) = dayKey(lockedBlocks[i].start)

\* the block at position i is the first one emitted for its task in the run
IsFirstOfTask(i) == \A j \in NewOf(planBlocks[i].taskId) : j >= i

\* the start lies, by weekday and by hour and minute, in a preferred window of the task
InPreferredWindow(t, start) ==
    \E w \in 1..Len(t.preferredTimeWindows) :
        LET win == t.preferredTimeWindows[w]
            minuteOfDay == (start - startOfDay(start)) \div MsPerMinute
        IN  /\ weekDayShort(start) \in win.days
            /\ win.start[1] * 60 + win.start[2] <= minuteOfDay
            /\ minuteOfDay < win.end[1] * 60 + win.end[2]

\* the start is at most 48 hours before the deadline of the task and not after it
NearDeadline(t, start) ==
    /\ Has(t.deadline)
    /\ start <= Val(t.deadline)
    /\ Val(t.deadline) - start <= 48 * 60 * MsPerMinute

\* C27: every new block has three reason codes: FIRST_AVAILABLE on the first
\* block of its task in the run and CHUNKED on the later ones; PREFERRED_WINDOW
\* or EARLIEST_SLOT; NEAR_DEADLINE, exactly when the start is at most 48 hours
\* before the deadline and not after it, or NORMAL_BUFFER; its confidence in
\* hundredths is 60, + 20 for PREFERRED_WINDOW, + 10 for NEAR_DEADLINE, + 5 for
\* FIRST_AVAILABLE, and lies between 20 and 95.
C27_ReasonsAndConfidence ==
    \A i \in NewIdx :
        LET b == planBlocks[i]
            t == sortedTasks[PositionOf(b.taskId)]
            first == IsFirstOfTask(i)
            preferred == InPreferredWindow(t, b.start)
            near == NearDeadline(t, b.start)
        IN  /\ b.reasonCodes = << IF first THEN "FIRST_AVAILABLE" ELSE "CHUNKED",
                                  IF preferred THEN "PREFERRED_WINDOW" ELSE "EARLIEST_SLOT",
                                  IF near THEN "NEAR_DEADLINE" ELSE "NORMAL_BUFFER" >>
            /\ b.confidence = 60 + (IF preferred THEN 20 ELSE 0) + (IF near THEN 10 ELSE 0)
                                 + (IF first THEN 5 ELSE 0)
            /\ b.confidence >= 20 /\ b.confidence <= 95

\* the run has returned with blocks of one task at confidence 0.65 (first, 49
\* hours before the deadline), 0.7 (later, 48 hours before it) and 0.9 (later,
\* in the preferred window of the next day)
C27_Witness ==
    /\ pc = "done"
    /\ \E i, j, k \in NewIdx :
         /\ planBlocks[i].taskId = planBlocks[j].taskId /\ planBlocks[j].taskId = planBlocks[k].taskId
         /\ planBlocks[i].confidence = 65
         /\ planBlocks[j].confidence = 70
         /\ Val(sortedTasks[PositionOf(planBlocks[j].taskId)].deadline) - planBlocks[j].start
              = 48 * 60 * MsPerMinute
         /\ planBlocks[k].confidence = 90

\* what C28 says of subtractInterval(base, cut)
SubtractsExactly(base, cut) ==
    LET rest == subtractInterval(base, cut)
    IN  /\ Len(rest) \in 0..2
        /\ \A i \in 1..Len(rest) :
              /\ rest[i].start < rest[i].end
              /\ base.start <= rest[i].start /\ rest[i].end <= base.end
              /\ rest[i].end <= cut.start \/ cut.end <= rest[i].start
        /\ \A p \in 0..MaxPoint :
              Covered(rest, p) <=> (Within(p, base.start, base.end) /\ ~Within(p, cut.start, cut.end))
        /\ (base.end <= cut.start \/ cut.end <= base.start) => rest = <<base>>

\* C28: subtracting a cut from an interval gives 0, 1 or 2 intervals, each
\* non-empty, inside the interval and clear of the cut, which cover exactly
\* the part of the interval outside the cut; an interval the cut does not
\* overlap, or only touches, is returned as it is. So the intervals held after
\* any number of cuts cover exactly the base outside those cuts.
C28_Subtract ==
    /\ (pc = "subtract" /\ index <= Len(events)) =>
          \A n \in 1..Len(slotsByDay[0]) :
              SubtractsExactly(slotsByDay[0][n], AsInterval(events[index]))
    /\ \A p \in 0..MaxPoint :
          Covered(slotsByDay[0], p)
            <=> (Within(p, slotStart, slotEnd)
                   /\ \A e \in 1..(index - 1) : ~Within(p, events[e].start, events[e].end))

\* all cuts are applied: the first cut split the base in two, and the second
\* only touched what was left
C28_Witness ==
    /\ pc = "subtracted"
    /\ Len(events) = 2
    /\ slotStart < events[1].start /\ events[1].end < slotEnd
    /\ events[2].start = events[1].end
    /\ Len(slotsByDay[0]) = 2

\* the slots of the day the slot loop has not come to yet, the one at index first
Ahead == SubSeq(slots, index, Len(slots))

\* C29: generatePlan returns. On the way, a turn of the fill loop that does not
\* leave the loop lowers the remaining minutes of the task by at least its
\* minimum block; the slot loop starts with all slots of the day ahead, works
\* on the first slot ahead while it fills, and leaves exactly that slot behind
\* when it moves on, whether the slot was removed, replaced or passed over; and
\* it leaves the day only with no slot ahead or nothing remaining.
C29_Termination ==
    /\ <>(pc = "done")
    /\ [][(pc = "fill" /\ pc' = "fill") =>
             /\ minBlockOf(Task) > 0
             /\ remaining' <= remaining - minBlockOf(Task)]_vars
    /\ [][/\ (pc = "day" /\ pc' = "slot") => Ahead' = slots
          /\ (pc \in {"slot", "fill"} /\ pc' = "fill") =>
                /\ Ahead' = Ahead
                /\ Head(Ahead).start <= slotStart' /\ slotEnd' <= Head(Ahead).end
          /\ (pc \in {"slot", "fill"} /\ pc' = "slot") =>
                /\ Ahead # <<>>
                /\ Ahead' = Tail(Ahead)
          /\ (pc = "slot" /\ pc' = "day") => (Ahead = <<>> \/ remaining <= 0)]_vars

\* the slot loop has removed the slot it filled with the last block and stands
\* on the slot that followed it, with minutes of the task remaining
C29_Witness ==
    /\ pc = "slot"
    /\ index = 1
    /\ remaining > 0
    /\ Len(planBlocks) > Len(lockedBlocks)
    /\ LET last == planBlocks[Len(planBlocks)]
       IN  /\ last.taskId = Task.id
           /\ dayKey(last.start) = dayKeyValue
           /\ Ahead # <<>>
           /\ last.end < Head(Ahead).start

\* C30: generatePlan run again with the same tasks, events, settings and now,
\* and with all blocks of the first result as lockedBlocks, emits no further
\* block: its plan stays the list of blocks it was given
C30_Fixpoint == Replanned => planBlocks = lockedBlocks

====
